---- MODULE Spec2Model ----
(***************************************************************************)
(* Model of rust-search-ui/src/clipboard.rs: set_text / get_text over two   *)
(* build-time selected backends (termux helper subprocesses, arboard).      *)
(*                                                                          *)
(* A Rust &str / String is modelled as a sequence of Unicode scalar values; *)
(* everything that crosses a pipe or sits in the clipboard is a sequence of *)
(* bytes (0..255).  text.as_bytes() is therefore the UTF-8 encoder and      *)
(* String::from_utf8_lossy the lossy UTF-8 decoder.                         *)
(***************************************************************************)
EXTENDS Integers, Sequences, FiniteSets, TLC

(***************************************************************************)
(* Bounds of the model.                                                     *)
(***************************************************************************)
\* longest text (in characters) passed to set_text
MaxLen == 2
\* longest byte string an unfaithful or failing "get" helper prints
MaxGarbageLen == 2
\* bytes the OS pipe between set_text and the "set" helper can hold
PipeCap == 2

\* characters of the payloads: newline (a control character, 1 byte) and
\* grinning face U+1F600 (4 bytes)
Chars == {10, 128512}

\* bytes an arbitrary helper output is made of: 'A', a 2-byte lead (C3), a
\* continuation byte (A9), a 3-byte lead (E2), a byte that is never valid (FF)
GarbageBytes == {65, 195, 169, 226, 255}

SeqsUpTo(S, n) == UNION {[1..k -> S] : k \in 0..n}

Texts == SeqsUpTo(Chars, MaxLen)

GarbageOutputs == SeqsUpTo(GarbageBytes, MaxGarbageLen)

Min(a, b) == IF a < b THEN a ELSE b

Tail2(s, k) == SubSeq(s, k + 1, Len(s))

(***************************************************************************)
(* text.as_bytes(): the UTF-8 encoding of a string.                         *)
(***************************************************************************)
EncodeChar(cp) ==
    IF cp < 128 THEN <<cp>>
    ELSE IF cp < 2048 THEN <<192 + (cp \div 64), 128 + (cp % 64)>>
    ELSE IF cp < 65536
         THEN <<224 + (cp \div 4096), 128 + ((cp \div 64) % 64), 128 + (cp % 64)>>
    ELSE <<240 + (cp \div 262144), 128 + ((cp \div 4096) % 64),
           128 + ((cp \div 64) % 64), 128 + (cp % 64)>>

RECURSIVE AsBytes(_)
AsBytes(s) == IF s = <<>> THEN <<>> ELSE EncodeChar(Head(s)) \o AsBytes(Tail(s))

(***************************************************************************)
(* String::from_utf8_lossy: decode, replacing every maximal ill-formed      *)
(* subpart by U+FFFD.                                                       *)
(***************************************************************************)
REPLACEMENT_CHARACTER == 65533

\* safe_get: the byte at position i, 0 past the end
SafeGet(b, i) == IF i <= Len(b) THEN b[i] ELSE 0

IsCont(x) == x >= 128 /\ x <= 191

Utf8CharWidth(x) ==
    IF x < 128 THEN 1
    ELSE IF x >= 194 /\ x <= 223 THEN 2
    ELSE IF x >= 224 /\ x <= 239 THEN 3
    ELSE IF x >= 240 /\ x <= 244 THEN 4
    ELSE 0

\* the second byte a 3-byte lead admits
Second3Ok(x, y) ==
    \/ x = 224 /\ y >= 160 /\ y <= 191
    \/ x >= 225 /\ x <= 236 /\ IsCont(y)
    \/ x = 237 /\ y >= 128 /\ y <= 159
    \/ x >= 238 /\ x <= 239 /\ IsCont(y)

\* the second byte a 4-byte lead admits
Second4Ok(x, y) ==
    \/ x = 240 /\ y >= 144 /\ y <= 191
    \/ x >= 241 /\ x <= 243 /\ IsCont(y)
    \/ x = 244 /\ y >= 128 /\ y <= 143

\* <<ok, n>>: the first chunk of b (non-empty) is a well-formed character of
\* n bytes (ok) or an ill-formed subpart of n bytes (~ok)
FirstChunk(b) ==
    LET x == b[1]
        w == Utf8CharWidth(x)
    IN  IF w = 1 THEN <<TRUE, 1>>
        ELSE IF w = 2
             THEN IF IsCont(SafeGet(b, 2)) THEN <<TRUE, 2>> ELSE <<FALSE, 1>>
        ELSE IF w = 3
             THEN IF ~Second3Ok(x, SafeGet(b, 2)) THEN <<FALSE, 1>>
                  ELSE IF ~IsCont(SafeGet(b, 3)) THEN <<FALSE, 2>>
                  ELSE <<TRUE, 3>>
        ELSE IF w = 4
             THEN IF ~Second4Ok(x, SafeGet(b, 2)) THEN <<FALSE, 1>>
                  ELSE IF ~IsCont(SafeGet(b, 3)) THEN <<FALSE, 2>>
                  ELSE IF ~IsCont(SafeGet(b, 4)) THEN <<FALSE, 3>>
                  ELSE <<TRUE, 4>>
        ELSE <<FALSE, 1>>

\* the scalar value a well-formed character of Len(c) bytes carries
CharValue(c) ==
    IF Len(c) = 1 THEN c[1]
    ELSE IF Len(c) = 2 THEN (c[1] - 192) * 64 + (c[2] - 128)
    ELSE IF Len(c) = 3
         THEN (c[1] - 224) * 4096 + (c[2] - 128) * 64 + (c[3] - 128)
    ELSE (c[1] - 240) * 262144 + (c[2] - 128) * 4096 + (c[3] - 128) * 64
         + (c[4] - 128)

\* a decoder that takes every byte for a character of its own
FromUtf8Bytewise(b) == b

RECURSIVE FromUtf8Lossy(_)
FromUtf8Lossy(b) ==
    IF b = <<>> THEN <<>>
    ELSE LET c == FirstChunk(b)
         IN  (IF c[1] THEN <<CharValue(SubSeq(b, 1, c[2]))>>
                      ELSE <<REPLACEMENT_CHARACTER>>)
             \o FromUtf8Lossy(Tail2(b, c[2]))

(***************************************************************************)
(* State.                                                                   *)
(***************************************************************************)
VARIABLES
    featureTermux,  \* build input: cargo feature "termux"
    targetAndroid,  \* build input: target_os = "android"
    clip,           \* bytes the system clipboard holds
    pc,             \* where the calling thread is: idle, inside a call, or
                    \*   at its return
    text,           \* argument of the current (last) set_text
    written,        \* bytes of the payload write_all has written so far
    stdin,          \* the ChildStdin handle: none, open, closed
    pipe,           \* bytes written to the helper's stdin and not yet read
    child,          \* the helper process spawned by the current (last) call
    result,         \* value the last call returned
    ops,            \* process operations the current (last) call has made
    prev,           \* history: the call before the current one was a set_text
                    \*   that succeeded with a storing helper, and its text
    lastSet,        \* history: text of the most recent successful set_text
                    \*   (none once a helper has reported success for a text
                    \*   it did not store)
    used            \* history: backends that have served a call

vars == <<featureTermux, targetAndroid, clip, pc, text, written, stdin, pipe,
          child, result, ops, prev, lastSet, used>>

\* behaviours of the external "termux-clipboard-set" helper:
\*   store   reads stdin to end-of-input, sets the clipboard, exits 0
\*   reject  reads stdin to end-of-input, sets nothing, exits 1
\*   early0  exits 0 at some point before end-of-input, sets nothing
\*   early1  exits 1 at some point before end-of-input, sets nothing
\*   hang    never reads and never exits
SetKinds == {"store", "reject", "early0", "early1", "hang"}
EofKinds == {"store", "reject"}
EarlyKinds == {"early0", "early1"}
\* the behaviours the helper's interface allows: exit 0 after storing all of
\* stdin, or a nonzero exit that stored nothing
DocumentedSetKinds == {"store", "reject", "early1"}

\* behaviours of the external "termux-clipboard-get" helper:
\*   echo     prints the clipboard, exits 0
\*   fail     prints nothing, part of the clipboard or garbage, exits 1
\*   garbage  prints arbitrary bytes, exits 0
GetKinds == {"echo", "fail", "garbage"}

\* io::ErrorKind of a failed spawn (executable missing, permission denied)
SpawnErrorKinds == {"NotFound", "PermissionDenied"}

NoErr == [type |-> "none", kind |-> "none"]
IoError(k) == [type |-> "io::Error", kind |-> k]
\* anyhow::bail!("<helper> failed")
Bail(helper) == [type |-> "anyhow::msg", kind |-> helper]
ArboardError(k) == [type |-> "arboard::Error", kind |-> k]

NoResult ==
    [op |-> "none", backend |-> "none", tag |-> "none", val |-> <<>>,
     err |-> NoErr, helper |-> "none"]

Ok(o, be, v, h) ==
    [op |-> o, backend |-> be, tag |-> "Ok", val |-> v, err |-> NoErr,
     helper |-> h]

Err(o, be, e, h) ==
    [op |-> o, backend |-> be, tag |-> "Err", val |-> <<>>, err |-> e,
     helper |-> h]

NoChild ==
    [op |-> "none", kind |-> "none", state |-> "none", status |-> 0,
     got |-> <<>>, out |-> <<>>, reaped |-> FALSE]

NoSet == [has |-> FALSE, text |-> <<>>]

\* what is remembered of a call that returned r for the text s
Summary(r, s) ==
    IF r.op = "set_text" /\ r.tag = "Ok" /\ r.helper = "store"
    THEN [has |-> TRUE, text |-> s]
    ELSE NoSet

Prefixes(b) == {SubSeq(b, 1, k) : k \in 0..Len(b)}

Append1(s, e) == IF s # <<>> /\ s[Len(s)] = e THEN s ELSE Append(s, e)

(***************************************************************************)
(* Backend selection: the #[cfg] attributes of the four blocks.             *)
(***************************************************************************)
SetUsesSubprocess == featureTermux \/ targetAndroid

SetUsesNative == ~featureTermux /\ ~targetAndroid

GetUsesSubprocess == featureTermux \/ targetAndroid

\* a cfg that forgets the android target
GetUsesNativeFeatureOnly == ~featureTermux

GetUsesNative == ~featureTermux /\ ~targetAndroid

Init ==
    /\ featureTermux \in BOOLEAN
    /\ targetAndroid \in BOOLEAN
    /\ clip = <<>>
    /\ pc = "idle"
    /\ text = <<>>
    /\ written = 0
    /\ stdin = "none"
    /\ pipe = <<>>
    /\ child = NoChild
    /\ result = NoResult
    /\ ops = <<>>
    /\ prev = NoSet
    /\ lastSet = NoSet
    /\ used = {}

(***************************************************************************)
(* The caller enters set_text(s) or get_text().                             *)
(***************************************************************************)
SetTextCall(s) ==
    /\ pc = "idle"
    /\ pc' = "set_call"
    /\ text' = s
    /\ prev' = NoSet
    /\ UNCHANGED <<featureTermux, targetAndroid, clip, written, stdin, pipe,
                   child, result, ops, lastSet, used>>

GetTextCall ==
    /\ pc = "idle"
    /\ pc' = "get_call"
    /\ UNCHANGED <<featureTermux, targetAndroid, clip, text, written, stdin,
                   pipe, child, result, ops, prev, lastSet, used>>

\* The call has returned its value and the caller goes on: the locals of the
\* call are gone (a Child that was never waited for is gone as a handle, not
\* as a process).
Return ==
    /\ pc = "return"
    /\ pc' = "idle"
    /\ prev' = Summary(result, text)
    /\ text' = <<>>
    /\ written' = 0
    /\ stdin' = "none"
    /\ pipe' = <<>>
    /\ child' = NoChild
    /\ result' = NoResult
    /\ ops' = <<>>
    /\ UNCHANGED <<featureTermux, targetAndroid, clip, lastSet, used>>

(***************************************************************************)
(* set_text, subprocess backend (lines 11-30).                              *)
(***************************************************************************)
\* a spawn failure reported with the message of a failed helper
SetSpawnFailAsBail(k) ==
    /\ pc = "set_call"
    /\ SetUsesSubprocess
    /\ pc' = "return"
    /\ ops' = <<"spawn_err">>
    /\ result' = Err("set_text", "subprocess", Bail("termux-clipboard-set"),
                     "none")
    /\ used' = used \cup {"subprocess"}
    /\ UNCHANGED <<featureTermux, targetAndroid, clip, text, written, stdin,
                   pipe, child, prev, lastSet>>

\* Command::new("termux-clipboard-set").stdin(piped).spawn()?  fails: the
\* error is returned at once, nothing else is done
SetSpawnFail(k) ==
    /\ pc = "set_call"
    /\ SetUsesSubprocess
    /\ pc' = "return"
    /\ ops' = <<"spawn_err">>
    /\ result' = Err("set_text", "subprocess", IoError(k), "none")
    /\ used' = used \cup {"subprocess"}
    /\ UNCHANGED <<featureTermux, targetAndroid, clip, text, written, stdin,
                   pipe, child, prev, lastSet>>

\* spawn succeeds: a helper process runs, its stdin is a pipe this call holds
SetSpawn(kind) ==
    /\ pc = "set_call"
    /\ SetUsesSubprocess
    /\ pc' = "set_write"
    /\ stdin' = "open"
    /\ child' = [NoChild EXCEPT !.op = "set", !.kind = kind, !.state = "running"]
    /\ ops' = <<"spawn">>
    /\ used' = used \cup {"subprocess"}
    /\ UNCHANGED <<featureTermux, targetAndroid, clip, text, written, pipe,
                   result, prev, lastSet>>

\* stdin.write_all(text.as_bytes()): one write(2) of the loop; it takes what
\* the pipe has room for and blocks while the pipe is full
SetWrite ==
    /\ pc = "set_write"
    /\ written < Len(AsBytes(text))
    /\ child.state = "running"
    /\ Len(pipe) < PipeCap
    /\ LET n == Min(PipeCap - Len(pipe), Len(AsBytes(text)) - written)
       IN  /\ pipe' = pipe \o SubSeq(AsBytes(text), written + 1, written + n)
           /\ written' = written + n
    /\ ops' = Append1(ops, "write")
    /\ UNCHANGED <<featureTermux, targetAndroid, clip, pc, text, stdin, child,
                   result, prev, lastSet, used>>

\* a write error that is dropped (let _ = stdin.write_all(..)): the call
\* goes on to close stdin and wait
SetWriteFailSwallowed ==
    /\ pc = "set_write"
    /\ written < Len(AsBytes(text))
    /\ child.state = "exited"
    /\ pc' = "set_wait"
    /\ stdin' = "closed"
    /\ ops' = ops \o <<"write_err", "close">>
    /\ UNCHANGED <<featureTermux, targetAndroid, clip, text, written, pipe,
                   child, result, prev, lastSet, used>>

\* a write(2) of the loop fails (EPIPE: the helper has gone): `?` returns the
\* io::Error; leaving the scope drops stdin (closing it) and drops child,
\* which neither kills nor waits for the process
SetWriteFail ==
    /\ pc = "set_write"
    /\ written < Len(AsBytes(text))
    /\ child.state = "exited"
    /\ pc' = "return"
    /\ stdin' = "closed"
    /\ ops' = ops \o <<"write_err", "close">>
    /\ result' = Err("set_text", "subprocess", IoError("BrokenPipe"), child.kind)
    /\ UNCHANGED <<featureTermux, targetAndroid, clip, text, written, pipe,
                   child, prev, lastSet, used>>

\* stdin borrowed (child.stdin.as_mut()) and kept alive instead of taken and
\* dropped: the write end is still open when the wait begins
SetCloseKeepsStdin ==
    /\ pc = "set_write"
    /\ written = Len(AsBytes(text))
    /\ pc' = "set_wait"
    /\ UNCHANGED <<featureTermux, targetAndroid, clip, text, written, stdin,
                   pipe, child, result, ops, prev, lastSet, used>>

\* write_all has returned Ok(()): the `if let` block ends and drops stdin,
\* which closes the pipe's write end
SetClose ==
    /\ pc = "set_write"
    /\ written = Len(AsBytes(text))
    /\ pc' = "set_wait"
    /\ stdin' = "closed"
    /\ ops' = Append(ops, "close")
    /\ UNCHANGED <<featureTermux, targetAndroid, clip, text, written, pipe,
                   child, result, prev, lastSet, used>>

\* a wait whose exit status is not looked at
SetWaitIgnoresStatus ==
    /\ pc = "set_wait"
    /\ child.state = "exited"
    /\ pc' = "return"
    /\ child' = [child EXCEPT !.reaped = TRUE]
    /\ ops' = Append(ops, "wait")
    /\ result' = Ok("set_text", "subprocess", <<>>, child.kind)
    /\ lastSet' = IF child.kind \in DocumentedSetKinds
                  THEN [has |-> TRUE, text |-> text]
                  ELSE NoSet
    /\ UNCHANGED <<featureTermux, targetAndroid, clip, text, written, stdin,
                   pipe, prev, used>>

\* child.wait()? returns once the helper has exited, and reaps it; then
\* status.success() decides between Ok(()) and bail!  (Waiting for the
\* call's own child, which nothing else reaps, does not fail: std retries an
\* interrupted waitpid.)
SetWait ==
    /\ pc = "set_wait"
    /\ child.state = "exited"
    /\ pc' = "return"
    /\ child' = [child EXCEPT !.reaped = TRUE]
    /\ ops' = Append(ops, "wait")
    /\ IF child.status = 0
       THEN /\ result' = Ok("set_text", "subprocess", <<>>, child.kind)
            /\ lastSet' = IF child.kind \in DocumentedSetKinds
                          THEN [has |-> TRUE, text |-> text]
                          ELSE NoSet
       ELSE /\ result' = Err("set_text", "subprocess",
                             Bail("termux-clipboard-set"), child.kind)
            /\ lastSet' = lastSet
    /\ UNCHANGED <<featureTermux, targetAndroid, clip, text, written, stdin,
                   pipe, prev, used>>

(***************************************************************************)
(* The "termux-clipboard-set" helper process.                               *)
(***************************************************************************)
\* the helper reads what the pipe holds
HelperRead ==
    /\ child.op = "set"
    /\ child.state = "running"
    /\ child.kind # "hang"
    /\ pipe # <<>>
    /\ child' = [child EXCEPT !.got = @ \o pipe]
    /\ pipe' = <<>>
    /\ UNCHANGED <<featureTermux, targetAndroid, clip, pc, text, written,
                   stdin, result, ops, prev, lastSet, used>>

\* the helper reads end-of-input (pipe drained, write end closed) and exits;
\* a storing helper sets the clipboard to the bytes it has read
HelperEof ==
    /\ child.op = "set"
    /\ child.state = "running"
    /\ child.kind # "hang"
    /\ pipe = <<>>
    /\ stdin = "closed"
    /\ child' = [child EXCEPT !.state = "exited",
                              !.status = IF child.kind \in {"store", "early0"}
                                         THEN 0 ELSE 1]
    /\ clip' = IF child.kind = "store" THEN child.got ELSE clip
    /\ UNCHANGED <<featureTermux, targetAndroid, pc, text, written, stdin,
                   pipe, result, ops, prev, lastSet, used>>

\* the helper exits without waiting for end-of-input; what the pipe still
\* holds is lost with its read end
HelperExitEarly ==
    /\ child.op = "set"
    /\ child.state = "running"
    /\ child.kind \in EarlyKinds
    /\ child' = [child EXCEPT !.state = "exited",
                              !.status = IF child.kind = "early0" THEN 0 ELSE 1]
    /\ pipe' = <<>>
    /\ UNCHANGED <<featureTermux, targetAndroid, clip, pc, text, written,
                   stdin, result, ops, prev, lastSet, used>>

(***************************************************************************)
(* get_text, subprocess backend (lines 43-54).                              *)
(***************************************************************************)
\* Command::new("termux-clipboard-get").output()?  cannot launch the helper
GetSpawnFail(k) ==
    /\ pc = "get_call"
    /\ GetUsesSubprocess
    /\ pc' = "return"
    /\ ops' = <<"spawn_err">>
    /\ result' = Err("get_text", "subprocess", IoError(k), "none")
    /\ used' = used \cup {"subprocess"}
    /\ UNCHANGED <<featureTermux, targetAndroid, clip, text, written, stdin,
                   pipe, child, prev, lastSet>>

\* output() launches the helper with its stdout captured and no stdin
GetSpawn(kind) ==
    /\ pc = "get_call"
    /\ GetUsesSubprocess
    /\ pc' = "get_output"
    /\ child' = [NoChild EXCEPT !.op = "get", !.kind = kind, !.state = "running"]
    /\ ops' = <<"spawn">>
    /\ used' = used \cup {"subprocess"}
    /\ UNCHANGED <<featureTermux, targetAndroid, clip, text, written, stdin,
                   pipe, result, prev, lastSet>>

\* a get_text that decodes whatever was printed, whatever the exit status
GetCollectIgnoresStatus ==
    /\ pc = "get_output"
    /\ child.state = "exited"
    /\ pc' = "return"
    /\ child' = [child EXCEPT !.reaped = TRUE]
    /\ ops' = Append(ops, "wait")
    /\ result' = Ok("get_text", "subprocess", FromUtf8Lossy(child.out),
                    child.kind)
    /\ UNCHANGED <<featureTermux, targetAndroid, clip, text, written, stdin,
                   pipe, prev, lastSet, used>>

\* a get_text that decodes strictly (String::from_utf8(..)?)
GetCollectStrict ==
    /\ pc = "get_output"
    /\ child.state = "exited"
    /\ pc' = "return"
    /\ child' = [child EXCEPT !.reaped = TRUE]
    /\ ops' = Append(ops, "wait")
    /\ result' = IF child.status # 0
                 THEN Err("get_text", "subprocess",
                          Bail("termux-clipboard-get"), child.kind)
                 ELSE IF REPLACEMENT_CHARACTER \in
                            {FromUtf8Lossy(child.out)[i] :
                                i \in 1..Len(FromUtf8Lossy(child.out))}
                 THEN Err("get_text", "subprocess",
                          [type |-> "FromUtf8Error", kind |-> "invalid"],
                          child.kind)
                 ELSE Ok("get_text", "subprocess", FromUtf8Lossy(child.out),
                         child.kind)
    /\ UNCHANGED <<featureTermux, targetAndroid, clip, text, written, stdin,
                   pipe, prev, lastSet, used>>

\* output() has read stdout to its end and waited for the helper (reaping
\* it); then status.success() decides between the decoded text and bail!
GetCollect ==
    /\ pc = "get_output"
    /\ child.state = "exited"
    /\ pc' = "return"
    /\ child' = [child EXCEPT !.reaped = TRUE]
    /\ ops' = Append(ops, "wait")
    /\ result' = IF child.status = 0
                 THEN Ok("get_text", "subprocess", FromUtf8Lossy(child.out),
                         child.kind)
                 ELSE Err("get_text", "subprocess",
                          Bail("termux-clipboard-get"), child.kind)
    /\ UNCHANGED <<featureTermux, targetAndroid, clip, text, written, stdin,
                   pipe, prev, lastSet, used>>

(***************************************************************************)
(* The "termux-clipboard-get" helper process: prints and exits.             *)
(***************************************************************************)
GetHelperRun(bytes) ==
    /\ child.op = "get"
    /\ child.state = "running"
    /\ \/ child.kind = "echo" /\ bytes = clip
       \/ child.kind = "fail" /\ bytes \in GarbageOutputs \cup Prefixes(clip)
       \/ child.kind = "garbage" /\ bytes \in GarbageOutputs
    /\ child' = [child EXCEPT !.state = "exited", !.out = bytes,
                              !.status = IF child.kind = "fail" THEN 1 ELSE 0]
    /\ UNCHANGED <<featureTermux, targetAndroid, clip, pc, text, written,
                   stdin, pipe, result, ops, prev, lastSet, used>>

(***************************************************************************)
(* Native backend (lines 32-37 and 56-60): arboard, an opaque library.      *)
(* outcome: "new" Clipboard::new() fails, "op" the operation fails, "ok".   *)
(***************************************************************************)
NativeOutcomes == {"new", "op", "ok"}

NativeSetText(outcome) ==
    /\ pc = "set_call"
    /\ SetUsesNative
    /\ pc' = "return"
    /\ result' = IF outcome = "new"
                 THEN Err("set_text", "native", ArboardError("new"), "none")
                 ELSE IF outcome = "op"
                 THEN Err("set_text", "native", ArboardError("set_text"), "none")
                 ELSE Ok("set_text", "native", <<>>, "none")
    /\ clip' = IF outcome = "ok" THEN AsBytes(text) ELSE clip
    /\ lastSet' = IF outcome = "ok" THEN [has |-> TRUE, text |-> text] ELSE lastSet
    /\ used' = used \cup {"native"}
    /\ UNCHANGED <<featureTermux, targetAndroid, text, written, stdin, pipe,
                   child, ops, prev>>

NativeGetText(outcome) ==
    /\ pc = "get_call"
    /\ GetUsesNative
    /\ pc' = "return"
    /\ result' = IF outcome = "new"
                 THEN Err("get_text", "native", ArboardError("new"), "none")
                 ELSE IF outcome = "op"
                 THEN Err("get_text", "native", ArboardError("get_text"), "none")
                 ELSE Ok("get_text", "native", FromUtf8Lossy(clip), "none")
    /\ used' = used \cup {"native"}
    /\ UNCHANGED <<featureTermux, targetAndroid, clip, text, written, stdin,
                   pipe, child, ops, prev, lastSet>>

(***************************************************************************)
(* Specifications.                                                          *)
(***************************************************************************)
Next ==
    \/ \E s \in Texts : SetTextCall(s)
    \/ GetTextCall
    \/ Return
    \/ \E k \in SpawnErrorKinds : SetSpawnFail(k)
    \/ \E kind \in SetKinds : SetSpawn(kind)
    \/ SetWrite
    \/ SetWriteFail
    \/ SetClose
    \/ SetWait
    \/ HelperRead
    \/ HelperEof
    \/ HelperExitEarly
    \/ \E k \in SpawnErrorKinds : GetSpawnFail(k)
    \/ \E kind \in GetKinds : GetSpawn(kind)
    \/ GetCollect
    \/ \E bytes \in GarbageOutputs \cup Prefixes(clip) : GetHelperRun(bytes)
    \/ \E o \in NativeOutcomes : NativeSetText(o)
    \/ \E o \in NativeOutcomes : NativeGetText(o)

Spec == Init /\ [][Next]_vars

\* The calling thread keeps running inside a call, and a helper that reads its
\* stdin keeps reading and exits at end-of-input.  Nothing obliges a caller to
\* make another call, an early-exiting helper to exit, or a hung one to move.
FairSpec ==
    /\ Spec
    /\ WF_vars(SetWrite)
    /\ WF_vars(SetWriteFail)
    /\ WF_vars(SetClose)
    /\ WF_vars(SetWait)
    /\ WF_vars(HelperRead)
    /\ WF_vars(HelperEof)

(***************************************************************************)
(* Vocabulary of the properties.                                            *)
(***************************************************************************)
Range(s) == {s[i] : i \in 1..Len(s)}

\* a call on the subprocess backend has returned
Returned(o) == pc = "return" /\ result.op = o /\ result.backend = "subprocess"

SetHelper == "termux-clipboard-set"
GetHelper == "termux-clipboard-get"

\* the failure kinds, read off the error value the caller receives
HelperSpawnFailed(r) ==
    r.tag = "Err" /\ r.err.type = "io::Error" /\ r.err.kind \in SpawnErrorKinds

HelperProcessFailed(r, helper) == r.tag = "Err" /\ r.err = Bail(helper)

IoFailed(r) ==
    r.tag = "Err" /\ r.err.type = "io::Error" /\ r.err.kind \notin SpawnErrorKinds

\* UTF-8 as its definition has it: a byte string is valid when it is cut into
\* the encodings of Unicode scalar values
IsScalarValue(cp) == cp >= 0 /\ cp <= 1114111 /\ ~(cp >= 55296 /\ cp <= 57343)

IsCharEncoding(c) ==
    /\ Len(c) \in 1..4
    /\ IsScalarValue(CharValue(c))
    /\ EncodeChar(CharValue(c)) = c

RECURSIVE ValidUtf8(_)
ValidUtf8(b) ==
    \/ b = <<>>
    \/ \E w \in 1..Min(4, Len(b)) :
          IsCharEncoding(SubSeq(b, 1, w)) /\ ValidUtf8(Tail2(b, w))

(***************************************************************************)
(* C1: round trip.  With helpers that store and print faithfully, a         *)
(* set_text(s) that succeeded, followed at once by get_text(), gives Ok(s). *)
(***************************************************************************)
C1_RoundTrip ==
    (Returned("get_text") /\ prev.has /\ result.helper = "echo")
        => result.tag = "Ok" /\ result.val = prev.text

C1_Witness ==
    /\ Returned("get_text")
    /\ prev.has
    /\ result.helper = "echo"
    /\ result.tag = "Ok"
    /\ prev.text = <<10, 128512>>

(***************************************************************************)
(* C2 as claimed: whenever the spawned "set" helper exits with a nonzero    *)
(* status, set_text returns HelperProcessFailed; success only on a          *)
(* successful exit status.                                                  *)
(***************************************************************************)
C2_Original ==
    (Returned("set_text") /\ child.op = "set")
        => /\ (child.state = "exited" /\ child.status # 0)
                => HelperProcessFailed(result, SetHelper)
           /\ result.tag = "Ok" => (child.state = "exited" /\ child.status = 0)

(***************************************************************************)
(* C2 amended: when the whole payload was written without error and the     *)
(* spawned "set" helper exits with a nonzero status, set_text returns        *)
(* HelperProcessFailed naming the helper; set_text returns success only if  *)
(* the exit status it waited for indicates success.                         *)
(***************************************************************************)
C2_ProcessFailed ==
    (Returned("set_text") /\ child.op = "set")
        => /\ ("write_err" \notin Range(ops) /\ child.state = "exited"
               /\ child.status # 0)
                => HelperProcessFailed(result, SetHelper)
           /\ result.tag = "Ok"
                => (child.state = "exited" /\ child.status = 0 /\ child.reaped)

C2_Witness ==
    /\ Returned("set_text")
    /\ child.op = "set"
    /\ "write_err" \notin Range(ops)
    /\ child.status # 0
    /\ text # <<>>
    /\ HelperProcessFailed(result, SetHelper)

(***************************************************************************)
(* C3: when the "get" helper exits with a failure status, get_text returns  *)
(* HelperProcessFailed and no string, whatever the helper printed; it       *)
(* returns a string only on a successful exit status.                       *)
(***************************************************************************)
C3_GetFailure ==
    Returned("get_text") /\ child.op = "get"
        => /\ child.status # 0
                => (HelperProcessFailed(result, GetHelper) /\ result.val = <<>>)
           /\ result.tag = "Ok" => child.status = 0

C3_Witness ==
    /\ Returned("get_text")
    /\ child.op = "get"
    /\ child.status # 0
    /\ child.out # <<>>
    /\ HelperProcessFailed(result, GetHelper)

(***************************************************************************)
(* C4: a helper that cannot be launched makes the call return               *)
(* HelperSpawnFailed, a failure no other cause produces (it is neither      *)
(* HelperProcessFailed nor IoFailed), and the call neither writes to a      *)
(* stdin nor waits for a process.                                           *)
(***************************************************************************)
C4_SpawnFailed ==
    (pc = "return" /\ result.backend = "subprocess")
        => /\ "spawn_err" \in Range(ops)
                => /\ HelperSpawnFailed(result)
                   /\ ~HelperProcessFailed(result, SetHelper)
                   /\ ~HelperProcessFailed(result, GetHelper)
                   /\ ~IoFailed(result)
                   /\ ops = <<"spawn_err">>
                   /\ child = NoChild
                   /\ stdin = "none"
           /\ HelperSpawnFailed(result) => "spawn_err" \in Range(ops)

C4_Witness ==
    /\ Returned("set_text")
    /\ ops = <<"spawn_err">>
    /\ text # <<>>
    /\ HelperSpawnFailed(result)

(***************************************************************************)
(* C5: whatever bytes the "get" helper prints, a successful exit makes      *)
(* get_text return Ok: a valid UTF-8 output comes back unchanged, the valid *)
(* head and the valid tail of any output are kept, and an invalid output    *)
(* comes back with replacement characters in it.                            *)
(***************************************************************************)
C5_LossyDecode ==
    (Returned("get_text") /\ child.op = "get" /\ child.status = 0)
        => /\ result.tag = "Ok"
           /\ ValidUtf8(child.out) => AsBytes(result.val) = child.out
           /\ ~ValidUtf8(child.out)
                => /\ REPLACEMENT_CHARACTER \in Range(result.val)
                   /\ Len(result.val) <= Len(child.out)
           /\ \A k \in 0..Len(child.out) :
                /\ ValidUtf8(SubSeq(child.out, 1, k))
                     => \E n \in 0..Len(result.val) :
                           AsBytes(SubSeq(result.val, 1, n))
                               = SubSeq(child.out, 1, k)
                /\ ValidUtf8(Tail2(child.out, k))
                     => \E n \in 0..Len(result.val) :
                           AsBytes(Tail2(result.val, n)) = Tail2(child.out, k)

C5_Witness ==
    /\ Returned("get_text")
    /\ child.status = 0
    /\ child.out = <<65, 195>>
    /\ result.tag = "Ok"
    /\ result.val = <<65, REPLACEMENT_CHARACTER>>

(***************************************************************************)
(* C6: in every build exactly one backend is active, the same one for       *)
(* set_text and get_text, and no run ever has a call served by the other    *)
(* one, also not after a failure.                                           *)
(***************************************************************************)
C6_OneBackend ==
    /\ SetUsesSubprocess # SetUsesNative
    /\ GetUsesSubprocess # GetUsesNative
    /\ SetUsesSubprocess = GetUsesSubprocess
    /\ used \subseteq {IF SetUsesSubprocess THEN "subprocess" ELSE "native"}
    /\ result.backend \in used \cup {"none"}

C6_Witness ==
    /\ pc = "return"
    /\ result.tag = "Err"
    /\ lastSet.has
    /\ targetAndroid
    /\ ~featureTermux
    /\ used = {"subprocess"}

(***************************************************************************)
(* C7 as claimed: when a subprocess call returns, the helper it spawned has *)
(* its stdin closed and has been waited for.                                *)
(***************************************************************************)
C7_Released ==
    (pc = "return" /\ result.backend = "subprocess" /\ child.op # "none")
        => stdin # "open" /\ child.state = "exited" /\ child.reaped

(***************************************************************************)
(* C8: set_text closes stdin after the whole payload and before it waits    *)
(* (order spawn, write, close, wait), closes it also when a write fails;    *)
(* so with a helper that reads to end-of-input and then exits, every        *)
(* set_text returns and the helper is never left waiting for input.         *)
(***************************************************************************)
C8_Order ==
    /\ pc = "set_wait"
         => /\ stdin = "closed"
            /\ written = Len(AsBytes(text))
            /\ ops = IF text = <<>> THEN <<"spawn", "close">>
                                    ELSE <<"spawn", "write", "close">>
    /\ (Returned("set_text") /\ child.op = "set")
         => /\ stdin = "closed"
            /\ "wait" \in Range(ops)
                 => ops = IF text = <<>> THEN <<"spawn", "close", "wait">>
                          ELSE <<"spawn", "write", "close", "wait">>

\* C8: the order holds always, every set_text served by a helper that reads
\* to end-of-input returns with the helper reaped, and such a helper exits.
C8_CloseThenWait ==
    /\ []C8_Order
    /\ (pc = "set_write" /\ child.kind \in EofKinds)
          ~> (pc = "return" /\ child.reaped)
    /\ (child.op = "set" /\ child.state = "running" /\ child.kind \in EofKinds)
          ~> (child.state = "exited")

C8_Witness ==
    /\ Returned("set_text")
    /\ child.kind = "store"
    /\ Len(AsBytes(text)) > PipeCap
    /\ result.tag = "Ok"
    /\ child.reaped

(***************************************************************************)
(* C9: a failed write to the helper's stdin makes set_text return IoFailed, *)
(* whatever the helper's exit status, with nothing done after it but the    *)
(* closing of stdin; set_text returns success only when the whole payload   *)
(* was written without error.                                               *)
(***************************************************************************)
C9_WriteFailure ==
    Returned("set_text")
        => /\ "write_err" \in Range(ops)
                => /\ IoFailed(result)
                   /\ ~HelperProcessFailed(result, SetHelper)
                   /\ ~HelperSpawnFailed(result)
                   /\ SubSeq(ops, Len(ops) - 1, Len(ops)) = <<"write_err", "close">>
           /\ result.tag = "Ok"
                => /\ written = Len(AsBytes(text))
                   /\ "write_err" \notin Range(ops)

C9_Witness ==
    /\ Returned("set_text")
    /\ "write_err" \in Range(ops)
    /\ written > 0
    /\ child.state = "exited"
    /\ child.status = 0
    /\ IoFailed(result)

(***************************************************************************)
(* C10: get_text never changes the clipboard; with helpers that behave as   *)
(* documented, the clipboard holds the text of the most recent successful   *)
(* set_text whatever calls failed since, and a successful get_text served   *)
(* by a printing helper returns the clipboard's text, which is that text.   *)
(***************************************************************************)
C10_State ==
    /\ (pc \in {"idle", "get_call", "get_output", "return"} /\ lastSet.has)
          => clip = AsBytes(lastSet.text)
    /\ (pc = "return" /\ result.op = "get_text" /\ result.tag = "Ok"
        /\ result.helper \in {"echo", "none"})
          => /\ AsBytes(result.val) = clip
             /\ lastSet.has => result.val = lastSet.text

\* C10: the clipboard agrees with the history always, and no step of a
\* get_text changes it.
C10_ReadOnly ==
    /\ []C10_State
    /\ [][(pc \in {"get_call", "get_output"}) => (clip' = clip)]_vars

C10_Witness ==
    /\ Returned("get_text")
    /\ result.tag = "Ok"
    /\ result.helper = "echo"
    /\ lastSet.has
    /\ ~prev.has
    /\ lastSet.text # <<>>

====
